---- MODULE Spec2Model ----
(***************************************************************************)
(* Model of the weekly allocation of Cola.py: simulate_week (capacity      *)
(* rationing, truck quantization, SKU re-split, inventory roll-forward,    *)
(* fulfillment) and the "Run Simulation" loop that threads the inventory   *)
(* from one week to the next and appends one result record per week.       *)
(*                                                                         *)
(* Quantities are Python integers.  The float expressions of the source    *)
(* are modelled by their exact rational value; the one place where the     *)
(* float result can differ from the exact one is round() on an exact half  *)
(* (reg_share is a rounded quotient), so a tie is modelled as a choice     *)
(* between the two neighbouring integers.                                  *)
(***************************************************************************)
EXTENDS Integers, Sequences, FiniteSets, TLC

\* ------------------------------------------------------------------ bounds
\* number of rows of the uploaded demand dataset
MaxWeeks == 2

\* ------------------------------------------------------- program constants
\* the SKU grid of split_into_skus
SkuGrid == 1000

Keys == {"North_Regular", "North_Diet", "South_Regular", "South_Diet"}

\* ------------------------------------------------------------ input domains
\* a demand row: one non-negative demand per key
RowsOf(nr, nd, sr, sd) ==
    {[k \in Keys |-> CASE k = "North_Regular" -> a
                       [] k = "North_Diet"    -> b
                       [] k = "South_Regular" -> c
                       [] k = "South_Diet"    -> d] :
        a \in nr, b \in nd, c \in sr, d \in sd}

Rows == RowsOf({0, 500, 1000}, {0, 1000}, {0, 1000, 2000}, {0, 500})
GridRows == RowsOf({0, 1000, 3000}, {0, 1000}, {0, 2000}, {0, 1000})

\* <<plant capacity, truck size, safety stock>> as entered in the sidebar
ValidConfigs == {2500, 4000} \X {1000, 1500} \X {0, 1000}
InvalidConfigs == {<<0, 1000, 1000>>, <<-2000, 1000, 1000>>,
                   <<2500, 0, 1000>>, <<2500, -1000, 1000>>}
Configs == ValidConfigs \cup InvalidConfigs
GridConfigs == {2500, 3333} \X {1000, 2000} \X {0, 2000}

VARIABLES PLANT_CAPACITY, TRUCK_SIZE, SAFETY_STOCK, inventory, results_len,
          last_result, sim, pc

vars == <<PLANT_CAPACITY, TRUCK_SIZE, SAFETY_STOCK, inventory, results_len,
          last_result, sim, pc>>

\* --------------------------------------------------------- Python helpers
Max(a, b) == IF a >= b THEN a ELSE b
Min(a, b) == IF a <= b THEN a ELSE b
Abs(a) == IF a >= 0 THEN a ELSE -a

\* sum(d.values()) of a dict over the four keys
Sum(d) == d["North_Regular"] + d["North_Diet"] + d["South_Regular"] + d["South_Diet"]

\* math.floor(a / b), b # 0
FloorDiv(a, b) == IF b > 0 THEN a \div b ELSE (-a) \div (-b)

\* int(a / b), b # 0: truncation toward zero
TruncDiv(a, b) ==
    IF (a >= 0) = (b > 0) THEN Abs(a) \div Abs(b) ELSE -(Abs(a) \div Abs(b))

\* num / den is an exact half, den > 0
IsHalf(num, den) == 2 * (num - (num \div den) * den) = den

\* round(num / den), den > 0; tie_up decides an exact half
Round(num, den, tie_up) ==
    LET q == num \div den
        r == num - q * den
    IN  IF 2 * r < den THEN q
        ELSE IF 2 * r > den THEN q + 1
        ELSE IF tie_up THEN q + 1 ELSE q

\* ------------------------------------------------------- simulate_week
\* Required without the stock on hand (mutant of Required)
RequiredIgnoringStock(demand, starting_inv) ==
    [k \in Keys |-> Max(0, demand[k] + SAFETY_STOCK)]

\* Step 1: required demand + safety stock
Required(demand, starting_inv) ==
    [k \in Keys |-> Max(0, demand[k] + SAFETY_STOCK - starting_inv[k])]

\* Alloc without the scale-down (mutant of Alloc)
AllocUnscaled(required, capacity) == required

\* Step 2: scale if capacity exceeded (proportional, truncating)
Alloc(required, capacity) ==
    IF Sum(required) > capacity
    THEN [k \in Keys |-> TruncDiv(required[k] * capacity, Sum(required))]
    ELSE required

\* TruckTotal without the truncation to whole trucks (mutant of TruckTotal)
TruckTotalUntruncated(total) == total

\* TruckTotal that counts the started truck as well (mutant of TruckTotal)
TruckTotalExtraTruck(total) == (FloorDiv(total, TRUCK_SIZE) + 1) * TRUCK_SIZE

\* Step 3: math.floor(total / TRUCK_SIZE) * TRUCK_SIZE
TruckTotal(total) == FloorDiv(total, TRUCK_SIZE) * TRUCK_SIZE

\* which Regular share split_into_skus computes
ShareKind(req_reg, req_diet, truck_total) ==
    IF truck_total = 0 THEN "none"
    ELSE IF req_reg + req_diet > 0 THEN "proportional" ELSE "default"

\* Step 4: split a DC's truck total into its two SKUs
split_into_skus(req_reg, req_diet, truck_total, tie_up) ==
    IF truck_total = 0 THEN [reg |-> 0, diet |-> 0]
    ELSE
      LET share_num == IF req_reg + req_diet > 0 THEN req_reg ELSE 1
          share_den == IF req_reg + req_diet > 0 THEN req_reg + req_diet ELSE 2
          reg0  == Round(share_num * truck_total, share_den * SkuGrid, tie_up) * SkuGrid
          diet0 == truck_total - reg0
          reg1  == IF diet0 < 0 THEN truck_total ELSE reg0
          diet1 == IF diet0 < 0 THEN 0 ELSE diet0
          reg2  == IF reg1 < 0 THEN 0 ELSE reg1
          reg3  == (reg2 \div SkuGrid) * SkuGrid
      IN  [reg |-> reg3, diet |-> truck_total - reg3]

\* whether round() in the split of one DC meets an exact half
TieChoices(row, starting_inv, reg, diet) ==
    LET required == Required(row, starting_inv) IN
    IF TRUCK_SIZE = 0 \/ (Sum(required) > PLANT_CAPACITY /\ Sum(required) = 0)
    THEN {FALSE}
    ELSE LET alloc == Alloc(required, PLANT_CAPACITY)
             truck_total == TruckTotal(alloc[reg] + alloc[diet])
             num == (IF alloc[reg] + alloc[diet] > 0 THEN alloc[reg] ELSE 1) * truck_total
             den == (IF alloc[reg] + alloc[diet] > 0 THEN alloc[reg] + alloc[diet] ELSE 2) * SkuGrid
         IN  IF truck_total # 0 /\ IsHalf(num, den) THEN BOOLEAN ELSE {FALSE}

\* EndingInv without the floor at zero (mutant of EndingInv)
EndingInvUnfloored(starting_inv, alloc_truck, demand) ==
    [k \in Keys |-> starting_inv[k] + alloc_truck[k] - demand[k]]

\* Step 5: update inventories (never negative)
EndingInv(starting_inv, alloc_truck, demand) ==
    [k \in Keys |-> Max(0, starting_inv[k] + alloc_truck[k] - demand[k])]

\* Fulfilled without the cap at demand (mutant of Fulfilled)
FulfilledUncapped(demand, alloc_truck) == alloc_truck

\* Step 6: fulfilled quantity per key
Fulfilled(demand, alloc_truck) ==
    [k \in Keys |-> Min(demand[k], alloc_truck[k])]

\* sum(fulfilled) / sum(demand) * 100 as an exact ratio; a zero denominator
\* gives nan (numpy scalars) when the call does not raise
FulfillmentPct(fulfilled, demand) ==
    IF Sum(demand) = 0
    THEN [nan |-> TRUE, num |-> 0, den |-> 1]
    ELSE [nan |-> FALSE, num |-> 100 * Sum(fulfilled), den |-> Sum(demand)]

\* a call that ended in an exception
Raised(demand, starting_inv, where) ==
    [status |-> "raised", demand |-> demand, starting_inv |-> starting_inv,
     where |-> where]

\* The whole call.  numpy_row: the row holds numpy scalars (all-numeric
\* dataset) rather than Python ints (object row); it decides whether a zero
\* total demand yields nan or ZeroDivisionError.
simulate_week(row, starting_inv, tie_n, tie_s, numpy_row) ==
    LET demand == row
        required == Required(demand, starting_inv)
        total_required == Sum(required)
    IN
    IF total_required > PLANT_CAPACITY /\ total_required = 0
    THEN Raised(demand, starting_inv, "scale")
    ELSE IF TRUCK_SIZE = 0
    THEN Raised(demand, starting_inv, "truck")
    ELSE
      LET alloc == Alloc(required, PLANT_CAPACITY)
          north_total == alloc["North_Regular"] + alloc["North_Diet"]
          south_total == alloc["South_Regular"] + alloc["South_Diet"]
          north_truck_total == TruckTotal(north_total)
          south_truck_total == TruckTotal(south_total)
          n == split_into_skus(alloc["North_Regular"], alloc["North_Diet"],
                               north_truck_total, tie_n)
          s == split_into_skus(alloc["South_Regular"], alloc["South_Diet"],
                               south_truck_total, tie_s)
          alloc_truck == [k \in Keys |->
                            CASE k = "North_Regular" -> n.reg
                              [] k = "North_Diet"    -> n.diet
                              [] k = "South_Regular" -> s.reg
                              [] k = "South_Diet"    -> s.diet]
          ending_inv == EndingInv(starting_inv, alloc_truck, demand)
          fulfilled == Fulfilled(demand, alloc_truck)
      IN
      IF Sum(demand) = 0 /\ ~numpy_row
      THEN Raised(demand, starting_inv, "fulfillment")
      ELSE [status |-> "returned", demand |-> demand,
            starting_inv |-> starting_inv,
            required |-> required, total_required |-> total_required,
            alloc |-> alloc,
            north_share |-> ShareKind(alloc["North_Regular"], alloc["North_Diet"],
                                      north_truck_total),
            south_share |-> ShareKind(alloc["South_Regular"], alloc["South_Diet"],
                                      south_truck_total),
            alloc_truck |-> alloc_truck, ending_inv |-> ending_inv,
            fulfilled |-> fulfilled,
            fulfillment_pct |-> FulfillmentPct(fulfilled, demand)]

\* ------------------------------------------------------- Run Simulation
\* the record appended to results for one week
WeekResult(row, s) ==
    [shipments |-> s.alloc_truck,
     Total_Production |-> Sum(s.alloc_truck),
     Total_Demand |-> Sum(row),
     Fulfillment |-> s.fulfillment_pct,
     Capacity_Utilization |-> [num |-> 100 * Sum(s.alloc_truck), den |-> PLANT_CAPACITY],
     Trucks_Used |-> [num |-> (s.alloc_truck["North_Regular"] + s.alloc_truck["North_Diet"])
                              + (s.alloc_truck["South_Regular"] + s.alloc_truck["South_Diet"]),
                      den |-> TRUCK_SIZE]]

NoResult == [none |-> TRUE]
NoCall == [status |-> "none"]

InitialInventory == [k \in Keys |-> SAFETY_STOCK]

InitWith(configs) ==
    /\ \E c \in configs : /\ PLANT_CAPACITY = c[1]
                         /\ TRUCK_SIZE = c[2]
                         /\ SAFETY_STOCK = c[3]
    /\ inventory = [k \in Keys |-> SAFETY_STOCK]
    /\ results_len = 0
    /\ last_result = NoResult
    /\ sim = NoCall
    /\ pc = "loop"

Init == InitWith(Configs)

InitGrid == InitWith(GridConfigs)

\* one iteration of `for _, row in df.iterrows()`
Week(row, tie_n, tie_s, numpy_row) ==
    /\ pc = "loop"
    /\ results_len < MaxWeeks
    /\ LET s == simulate_week(row, inventory, tie_n, tie_s, numpy_row) IN
       /\ sim' = s
       /\ IF s.status = "raised"
          THEN /\ pc' = "error"
               /\ UNCHANGED <<inventory, results_len, last_result>>
          ELSE /\ inventory' = s.ending_inv
               /\ IF PLANT_CAPACITY = 0
                  THEN /\ pc' = "error"
                       /\ UNCHANGED <<results_len, last_result>>
                  ELSE /\ results_len' = results_len + 1
                       /\ last_result' = WeekResult(row, s)
                       /\ pc' = "loop"
    /\ UNCHANGED <<PLANT_CAPACITY, TRUCK_SIZE, SAFETY_STOCK>>

\* the dataset has no more rows
LoopEnd ==
    /\ pc = "loop"
    /\ pc' = "done"
    /\ UNCHANGED <<PLANT_CAPACITY, TRUCK_SIZE, SAFETY_STOCK, inventory,
                   results_len, last_result, sim>>

\* the outcomes of round() that a week's two splits can have, and the two
\* kinds of row when the total demand is zero
RunRows(rows) ==
    \E row \in rows :
      \E tie_n \in TieChoices(row, inventory, "North_Regular", "North_Diet"),
         tie_s \in TieChoices(row, inventory, "South_Regular", "South_Diet"),
         numpy_row \in (IF Sum(row) = 0 THEN BOOLEAN ELSE {TRUE}) :
              Week(row, tie_n, tie_s, numpy_row)

RunWeek == RunRows(Rows)

RunGridWeek == RunRows(GridRows)

Next == RunWeek \/ LoopEnd

NextGrid == RunGridWeek \/ LoopEnd

Spec == Init /\ [][Next]_vars

SpecGrid == InitGrid /\ [][NextGrid]_vars

\* ================================================================ claims
ConfigOK == PLANT_CAPACITY > 0 /\ TRUCK_SIZE > 0
Returned == sim.status = "returned"
Called == sim.status # "none"

NorthShipped == sim.alloc_truck["North_Regular"] + sim.alloc_truck["North_Diet"]
SouthShipped == sim.alloc_truck["South_Regular"] + sim.alloc_truck["South_Diet"]

\* the requirement of key k in the last call, from its inputs
Requirement(k) == Max(0, sim.demand[k] + SAFETY_STOCK - sim.starting_inv[k])

\* C1: with a positive capacity and truck size, the shipments of each DC sum
\* to a non-negative whole number of trucks, and the Trucks_Used of the
\* appended record is an integer.
C1_DcTotalsAreWholeTrucks ==
    (ConfigOK /\ Returned) =>
        /\ NorthShipped >= 0 /\ NorthShipped % TRUCK_SIZE = 0
        /\ SouthShipped >= 0 /\ SouthShipped % TRUCK_SIZE = 0
        /\ pc # "error" =>
             /\ last_result.Trucks_Used.num = NorthShipped + SouthShipped
             /\ last_result.Trucks_Used.num % last_result.Trucks_Used.den = 0

\* a week whose North allocation was not a whole number of trucks and was
\* cut down to a positive one
C1_Witness ==
    /\ ConfigOK /\ Returned /\ pc = "loop"
    /\ (sim.alloc["North_Regular"] + sim.alloc["North_Diet"]) % TRUCK_SIZE # 0
    /\ NorthShipped > 0
    /\ SouthShipped > 0

\* C2: with a positive capacity and truck size, the four shipments of a week
\* sum to at most the plant capacity, scaled down or not.
C2_WithinCapacity ==
    (ConfigOK /\ Returned) => Sum(sim.alloc_truck) <= PLANT_CAPACITY

\* a week whose requirement exceeded the capacity and that shipped something
C2_Witness ==
    /\ ConfigOK /\ Returned
    /\ sim.total_required > PLANT_CAPACITY
    /\ Sum(sim.alloc_truck) > 0
    /\ results_len = 2

\* C3: the inventory threaded through the weeks is never negative.
C3_InventoryNonNegative ==
    ConfigOK => /\ \A k \in Keys : inventory[k] >= 0
                /\ Returned => \A k \in Keys : sim.ending_inv[k] >= 0

\* a second week in which a key's demand exceeded stock plus shipment, so
\* that the floor at zero acted
C3_Witness ==
    /\ ConfigOK /\ Returned /\ results_len = 2
    /\ sim.starting_inv # InitialInventory
    /\ \E k \in Keys : /\ sim.starting_inv[k] + sim.alloc_truck[k] - sim.demand[k] < 0
                       /\ inventory[k] = 0

\* C4: in a week with a positive total demand, every key has
\* 0 <= fulfilled <= demand, fulfilled <= shipment, shipment >= 0, and the
\* fulfillment percentage lies in [0, 100].
C4_FulfilledBounded ==
    (ConfigOK /\ Returned /\ Sum(sim.demand) > 0) =>
        /\ \A k \in Keys : /\ 0 <= sim.fulfilled[k]
                           /\ sim.fulfilled[k] <= sim.demand[k]
                           /\ sim.fulfilled[k] <= sim.alloc_truck[k]
                           /\ sim.alloc_truck[k] >= 0
        /\ ~sim.fulfillment_pct.nan
        /\ sim.fulfillment_pct.den > 0
        /\ 0 <= sim.fulfillment_pct.num
        /\ sim.fulfillment_pct.num <= 100 * sim.fulfillment_pct.den

\* a week in which one key was shipped more than its demand and another less
C4_Witness ==
    /\ ConfigOK /\ Returned /\ Sum(sim.demand) > 0
    /\ \E k \in Keys : sim.alloc_truck[k] > sim.demand[k]
    /\ \E k \in Keys : 0 < sim.alloc_truck[k] /\ sim.alloc_truck[k] < sim.demand[k]

\* C5: a week whose total demand is zero is reported with a defined
\* fulfillment value and the run goes on (no division by zero, no abort).
C5_ZeroDemandReported ==
    (ConfigOK /\ Called /\ Sum(sim.demand) = 0) =>
        /\ Returned
        /\ pc # "error"
        /\ ~sim.fulfillment_pct.nan

\* C6: with a non-positive capacity or truck size no week is processed: no
\* call returns shipments, no record is appended, the inventory is untouched.
C6_InvalidConfigFailsFast ==
    ~ConfigOK => /\ ~Returned
                 /\ results_len = 0
                 /\ inventory = InitialInventory

\* the preconditions of C7 on the inputs of the last call
C7_Case ==
    /\ ConfigOK /\ Called
    /\ Requirement("North_Regular") + Requirement("North_Diet")
         + Requirement("South_Regular") + Requirement("South_Diet") <= PLANT_CAPACITY
    /\ (Requirement("North_Regular") + Requirement("North_Diet")) % TRUCK_SIZE = 0
    /\ (Requirement("South_Regular") + Requirement("South_Diet")) % TRUCK_SIZE = 0
    /\ \A k \in Keys : Requirement(k) % SkuGrid = 0

\* the shipments part of C7
C7_ShipsRequirement ==
    /\ Returned
    /\ \A k \in Keys : sim.alloc_truck[k] = Requirement(k)
    /\ sim.starting_inv = InitialInventory =>
         /\ sim.alloc_truck = sim.demand
         /\ \A k \in Keys : sim.ending_inv[k] = SAFETY_STOCK

\* C7: a week within capacity whose DC requirements are whole trucks and
\* whose key requirements are multiples of 1000 ships exactly the
\* requirements; started from the safety stock it ships the demand, fulfils
\* 100% and ends every key at the safety stock.
C7_ExactShipments ==
    C7_Case =>
        /\ C7_ShipsRequirement
        /\ sim.starting_inv = InitialInventory =>
             /\ ~sim.fulfillment_pct.nan
             /\ sim.fulfillment_pct.num = 100 * sim.fulfillment_pct.den

\* C7 restricted to weeks with a positive total demand
C7_ExactShipmentsPositiveDemand ==
    (C7_Case /\ Sum(sim.demand) > 0) =>
        /\ C7_ShipsRequirement
        /\ sim.starting_inv = InitialInventory =>
             /\ ~sim.fulfillment_pct.nan
             /\ sim.fulfillment_pct.num = 100 * sim.fulfillment_pct.den

\* C8: with a positive capacity and truck size every SKU shipment is a
\* non-negative multiple of 1000.
C8_SkuShipmentsOnGrid ==
    (ConfigOK /\ Returned) =>
        \A k \in Keys : sim.alloc_truck[k] >= 0 /\ sim.alloc_truck[k] % SkuGrid = 0

\* the Regular shipments alone are on the grid
C8_RegularOnGrid ==
    (ConfigOK /\ Returned) =>
        \A k \in {"North_Regular", "South_Regular"} :
            sim.alloc_truck[k] >= 0 /\ sim.alloc_truck[k] % SkuGrid = 0

\* C9: when the safety stock, the truck size and every demand are multiples
\* of 1000, each shipment is at most the key's requirement and no key's
\* inventory ever exceeds the safety stock.
C9_NeverAboveSafetyStock ==
    /\ Returned => \A k \in Keys : sim.alloc_truck[k] <= Requirement(k)
    /\ \A k \in Keys : inventory[k] <= SAFETY_STOCK

\* a second week, started below the safety stock, scaled down, in which a
\* key was shipped something but less than its requirement
C9_Witness ==
    /\ Returned /\ results_len = 2
    /\ sim.starting_inv # InitialInventory
    /\ sim.total_required > PLANT_CAPACITY
    /\ \E k \in Keys : 0 < sim.alloc_truck[k] /\ sim.alloc_truck[k] < Requirement(k)
    /\ \E k \in Keys : sim.alloc_truck[k] > 0 /\ sim.alloc_truck[k] = Requirement(k)

\* C10: with a positive capacity and truck size the 0.5 default share is
\* never computed, and a DC whose two allocations are zero is shipped nothing.
C10_DefaultShareUnused ==
    (ConfigOK /\ Returned) =>
        /\ sim.north_share # "default"
        /\ sim.south_share # "default"
        /\ (sim.alloc["North_Regular"] + sim.alloc["North_Diet"] = 0) =>
              /\ sim.north_share = "none"
              /\ sim.alloc_truck["North_Regular"] = 0 /\ sim.alloc_truck["North_Diet"] = 0
        /\ (sim.alloc["South_Regular"] + sim.alloc["South_Diet"] = 0) =>
              /\ sim.south_share = "none"
              /\ sim.alloc_truck["South_Regular"] = 0 /\ sim.alloc_truck["South_Diet"] = 0

\* a week in which North had nothing allocated and South's share was computed
C10_Witness ==
    /\ ConfigOK /\ Returned
    /\ sim.alloc["North_Regular"] + sim.alloc["North_Diet"] = 0
    /\ sim.north_share = "none"
    /\ sim.south_share = "proportional"

====
